---- MODULE Spec2Model ----
(***************************************************************************)
(* Model of generating_patient_profiles.py: the weighted sampler           *)
(* phenotype_choice and the profile assembler generate_single_patient.     *)
(*                                                                         *)
(* A row of patient_perspective_data.csv is a record; the data frame is    *)
(* the set of the row numbers it holds (row order = number order).         *)
(* Probabilities are kept as integer weights, sizes before the noise as    *)
(* fractions <<numerator, denominator>>, so no rounding hides a case.      *)
(***************************************************************************)
EXTENDS Integers, Sequences, FiniteSets, TLC

\* ---- bounds of the model ------------------------------------------------
\* rows in the csv file, the largest total_phenotypes (the callers pass
\* counts around 10, never below zero here), and how far the noised size may
\* fall below zero or rise above the partition
MaxRows == 4
MaxTarget == 1
MaxNoise == 1

\* ---- the rows the csv file may hold ---------------------------------------
Row(d, nm, grp, pr, need, ptype, hpo) ==
    [disorder |-> d, patient_name |-> nm, discovery_group |-> grp,
     probability |-> pr, prerequisite_needed |-> need,
     prerequisite_type |-> ptype, HPO_category |-> hpo]

Rows ==
    << Row("D", "d1", "D", 1, "N", "-", "X"),
       Row("D", "s1", "S", 1, "N", "-", "X"),
       Row("D", "s2", "S", 2, "N", "-", "Y"),
       Row("D", "f1", "F", 1, "Y", "X", "Z"),
       Row("D", "f2", "F", 1, "Y", "Y", "Z"),
       Row("D", "s1", "D", 1, "N", "-", "X"),
       Row("E", "s1", "S", 1, "N", "-", "X"),
       Row("D", "s3", "S", 0, "N", "-", "X"),
       Row("D", "s1", "R", 1, "N", "-", "X") >>

RowIds == 1..Len(Rows)

Disorders == {"D", "E"}

\* ---- helpers ---------------------------------------------------------------
Min(S) == CHOOSE x \in S : \A y \in S : x <= y

RECURSIVE InRowOrder(_)
InRowOrder(S) ==
    IF S = {} THEN << >> ELSE <<Min(S)>> \o InRowOrder(S \ {Min(S)})

Range(s) == {s[i] : i \in 1..Len(s)}

NoRepeat(s) == \A i, j \in 1..Len(s) : s[i] = s[j] => i = j

NamesOf(ids) == [i \in 1..Len(ids) |-> Rows[ids[i]].patient_name]

\* math.fsum over the probability column of a set of rows
RECURSIVE fsum(_)
fsum(S) ==
    IF S = {} THEN 0
    ELSE LET i == Min(S) IN Rows[i].probability + fsum(S \ {i})

\* df = df[df['probability'] != 0]; df = df[df['discovery_group'] != 'R']
LoadFrame(csv) ==
    {i \in csv : Rows[i].probability # 0 /\ Rows[i].discovery_group # "R"}

Column(r, column_name) ==
    IF column_name = "discovery_group" THEN r.discovery_group
    ELSE r.HPO_category

\* df[df.disorder == disorder_name]
current_disorder(frame, disorder_name) ==
    {i \in frame : Rows[i].disorder = disorder_name}

\* current_disorder[current_disorder[column_name] == column_value]
current_discovery_grp(frame, disorder_name, column_name, column_value) ==
    {i \in current_disorder(frame, disorder_name) :
        Column(Rows[i], column_name) = column_value}

\* ---- phenotype_choice -----------------------------------------------------
\* faulty variant: the division by a zero total goes through
DivisionGoesThrough(den) == FALSE

\* fsum(p)/fsum(current_disorder.probability): Python float division raises
\* ZeroDivisionError on a zero denominator
DivisionRaises(den) == den = 0

\* faulty variant: the frame is not reduced to the disorder before the weights are summed
WeightOfWholeFrame(frame, disorder_name) == fsum(frame)

\* fsum(current_disorder.probability)
total_weight(frame, disorder_name) ==
    fsum(current_disorder(frame, disorder_name))

\* round(np.random.normal(size, size*0.15)): with a zero mean the scale is zero
\* and the draw is the mean; otherwise any integer may come out (the window
\* kept here reaches below zero and above the n rows of the partition)
NoisedSizes(num, n) ==
    IF num = 0 THEN {0} ELSE (0 - MaxNoise)..(n + MaxNoise)

\* faulty variant: the empty partition is not told apart
NoEmptyCheck(n) == FALSE

\* if len(a) == 0
EmptyPartition(n) == n = 0

\* faulty variant: the size is cut to the whole partition
WholePartition(n) == n

\* round(len(a)*0.8): 0.8*n is never half way between two integers
RoundEightTenths(n) == (8 * n + 5) \div 10

\* if len(a)<size: size = round(len(a)*0.8)
ClampSize(n, size) == IF n < size THEN RoundEightTenths(n) ELSE size

\* faulty variant: the rows are drawn with replacement
SamplesWithReplacement(S, k) == [1..k -> S]

\* np.random.choice(a, size=size, replace=False, p=p/fsum(p)): every row has a
\* positive probability, so every arrangement of k distinct rows may come out
Samples(S, k) == {s \in [1..k -> S] : NoRepeat(s)}

\* np.random.choice raises ValueError on a negative size, on more samples than
\* rows without replacement, and on an empty population
ChoiceRaises(n, k) == k < 0 \/ k > n \/ n = 0

Outcome(cn, cv, err, n, num, den, size, rows) ==
    [column_name |-> cn, column_value |-> cv, err |-> err, n |-> n,
     num |-> num, den |-> den, size |-> size, rows |-> rows,
     out |-> NamesOf(rows)]

\* the outcomes of one call: the partition size n, the size before the noise
\* num/den, the noised size, the rows drawn and the names returned
phenotype_choice(frame, disorder_name, column_name, column_value, total_phenotypes) ==
    LET grp == current_discovery_grp(frame, disorder_name, column_name, column_value)
        n == Cardinality(grp)
        den == total_weight(frame, disorder_name)
        num == total_phenotypes * fsum(grp)
        Ret(err, size, rows) ==
            Outcome(column_name, column_value, err, n, num, den, size, rows)
    IN  IF DivisionRaises(den)
        THEN {Ret("ZeroDivisionError", 0, << >>)}
        ELSE UNION {
            IF EmptyPartition(n)
            THEN {Ret("none", size, << >>)}
            ELSE IF ChoiceRaises(n, ClampSize(n, size))
                 THEN {Ret("ValueError", size, << >>)}
                 ELSE {Ret("none", size, rows) :
                          rows \in Samples(grp, ClampSize(n, size))}
            : size \in NoisedSizes(num, n)}

\* ---- generate_single_patient ---------------------------------------------
VARIABLES df, disorder, total_phenotypes, patient_info,
          pc, fin, sym, dev, specific_fin, sampled_prereq_list, calls, result

vars == <<df, disorder, total_phenotypes, patient_info,
          pc, fin, sym, dev, specific_fin, sampled_prereq_list, calls, result>>

inputs == <<df, disorder, total_phenotypes, patient_info>>

CsvFiles == {csv \in SUBSET RowIds : Cardinality(csv) <= MaxRows}

\* the patient_info the callers pass: the empty frame of
\* generate_timeseries_personas, and generate_users' name and diagnosis status
Payloads == {<< >>, <<"Ann", "undiagnosed">>}

Init ==
    /\ df \in {LoadFrame(csv) : csv \in CsvFiles}
    /\ disorder \in Disorders
    /\ total_phenotypes \in 0..MaxTarget
    /\ patient_info \in Payloads
    /\ pc = "fin"
    /\ fin = << >> /\ sym = << >> /\ dev = << >>
    /\ specific_fin = << >>
    /\ sampled_prereq_list = << >>
    /\ calls = << >>
    /\ result = << >>

\* an exception leaves generate_single_patient: nothing is returned
Raise(o) ==
    /\ pc' = "failed"
    /\ calls' = Append(calls, o)
    /\ UNCHANGED <<inputs, fin, sym, dev, specific_fin, sampled_prereq_list, result>>

\* fin = phenotype_choice(df, disorder, 'discovery_group', 'F', total_phenotypes)
SampleFin ==
    /\ pc = "fin"
    /\ \E o \in phenotype_choice(df, disorder, "discovery_group", "F", total_phenotypes) :
         IF o.err # "none" THEN Raise(o)
         ELSE /\ fin' = o.out
              /\ pc' = "sym"
              /\ calls' = Append(calls, o)
              /\ UNCHANGED <<inputs, sym, dev, specific_fin, sampled_prereq_list, result>>

\* sym = phenotype_choice(df, disorder, 'discovery_group', 'S', total_phenotypes)
SampleSym ==
    /\ pc = "sym"
    /\ \E o \in phenotype_choice(df, disorder, "discovery_group", "S", total_phenotypes) :
         IF o.err # "none" THEN Raise(o)
         ELSE /\ sym' = o.out
              /\ pc' = "dev"
              /\ calls' = Append(calls, o)
              /\ UNCHANGED <<inputs, fin, dev, specific_fin, sampled_prereq_list, result>>

\* dev = phenotype_choice(df, disorder, 'discovery_group', 'D', total_phenotypes)
SampleDev ==
    /\ pc = "dev"
    /\ \E o \in phenotype_choice(df, disorder, "discovery_group", "D", total_phenotypes) :
         IF o.err # "none" THEN Raise(o)
         ELSE /\ dev' = o.out
              /\ pc' = "specific"
              /\ calls' = Append(calls, o)
              /\ UNCHANGED <<inputs, fin, sym, specific_fin, sampled_prereq_list, result>>

\* fin_array = current_disorder[current_disorder.patient_name.isin(fin)]
\* specific_fin = fin_array[fin_array.prerequisite_needed == 'Y'].prerequisite_type
SpecificFindings(frame, disorder_name, findings) ==
    LET ids == InRowOrder({i \in current_disorder(frame, disorder_name) :
                             /\ Rows[i].patient_name \in Range(findings)
                             /\ Rows[i].prerequisite_needed = "Y"})
    IN  [k \in 1..Len(ids) |-> Rows[ids[k]].prerequisite_type]

\* prereq_df = df[df.prerequisite_needed == 'N']
prereq_df(frame) == {i \in frame : Rows[i].prerequisite_needed = "N"}

\* faulty variant: every sampled prerequisite is appended
AlwaysAppended(symptoms, developmental, sampled_prereq) == TRUE

\* np.isin(np.hstack((sym,dev)), sampled_prereq).any == False
\* `.any` is the bound method, never called; a method object is not equal to
\* False, so the comparison is False whatever the arrays hold
NotYetPresent(symptoms, developmental, sampled_prereq) == FALSE

\* for sampled_prereq in prereq_finding: ... np.hstack((sampled_prereq_list, sampled_prereq))
RECURSIVE CollectPrereq(_, _, _, _)
CollectPrereq(list, prereq_finding, symptoms, developmental) ==
    IF prereq_finding = << >> THEN list
    ELSE CollectPrereq(
            IF NotYetPresent(symptoms, developmental, Head(prereq_finding))
            THEN Append(list, Head(prereq_finding)) ELSE list,
            Tail(prereq_finding), symptoms, developmental)

\* if sym.shape != (0,): sym = np.hstack((sym, sampled_prereq_list))
\* else: sym = sampled_prereq_list
MergeSymptoms(symptoms, list) ==
    IF Len(symptoms) # 0 THEN symptoms \o list ELSE list

\* faulty variant: the segments are stacked findings first
FindingsFirst(developmental, symptoms, findings) ==
    findings \o symptoms \o developmental

\* phenotypes = np.hstack((dev, sym, fin))
Concatenate(developmental, symptoms, findings) ==
    developmental \o symptoms \o findings

\* faulty variant: the identity fields are appended after the phenotypes
InfoLast(info, phenotypes) == phenotypes \o info

\* phenotypes = np.append(patient_info, phenotypes)
AppendPhenotypes(info, phenotypes) == info \o phenotypes

\* current_disorder ... specific_fin ..., sampled_prereq_list = np.empty((0,)),
\* if specific_fin.shape != (0,)
FindSpecific ==
    /\ pc = "specific"
    /\ specific_fin' = SpecificFindings(df, disorder, fin)
    /\ sampled_prereq_list' = << >>
    /\ pc' = IF specific_fin' # << >> THEN "prereq" ELSE "assemble"
    /\ UNCHANGED <<inputs, fin, sym, dev, calls, result>>

\* one turn of `for finding in specific_fin`
PrereqFinding ==
    /\ pc = "prereq"
    /\ specific_fin # << >>
    /\ \E o \in phenotype_choice(prereq_df(df), disorder, "HPO_category",
                                 Head(specific_fin), total_phenotypes) :
         IF o.err # "none" THEN Raise(o)
         ELSE /\ sampled_prereq_list' =
                     CollectPrereq(sampled_prereq_list, o.out, sym, dev)
              /\ specific_fin' = Tail(specific_fin)
              /\ pc' = IF specific_fin' # << >> THEN "prereq" ELSE "merge"
              /\ calls' = Append(calls, o)
              /\ UNCHANGED <<inputs, fin, sym, dev, result>>

\* after the loop: the sampled prerequisites join the symptoms
MergePrereq ==
    /\ pc = "merge"
    /\ sym' = MergeSymptoms(sym, sampled_prereq_list)
    /\ pc' = "assemble"
    /\ UNCHANGED <<inputs, fin, dev, specific_fin, sampled_prereq_list, calls, result>>

\* phenotypes = np.hstack(...); np.append(patient_info, phenotypes); return
Assemble ==
    /\ pc = "assemble"
    /\ result' = AppendPhenotypes(patient_info, Concatenate(dev, sym, fin))
    /\ pc' = "done"
    /\ UNCHANGED <<inputs, fin, sym, dev, specific_fin, sampled_prereq_list, calls>>

\* the callers' loops (generate_users, generate_timeseries_personas) call
\* generate_single_patient again on the same frame with the same
\* total_phenotypes, for the next disorder and a fresh patient_info
NextPatient ==
    /\ pc \in {"done", "failed"}
    /\ disorder' \in Disorders
    /\ patient_info' \in Payloads
    /\ pc' = "fin"
    /\ fin' = << >> /\ sym' = << >> /\ dev' = << >>
    /\ specific_fin' = << >>
    /\ sampled_prereq_list' = << >>
    /\ calls' = << >>
    /\ result' = << >>
    /\ UNCHANGED <<df, total_phenotypes>>

Next ==
    \/ SampleFin
    \/ SampleSym
    \/ SampleDev
    \/ FindSpecific
    \/ PrereqFinding
    \/ MergePrereq
    \/ Assemble
    \/ NextPatient

Spec == Init /\ [][Next]_vars

\* ---- what the claims speak about ------------------------------------------
\* the phenotype portion of the returned profile
Portion == SubSeq(result, Len(patient_info) + 1, Len(result))

\* the frame a logged call was given, and the partition it selected
FrameOf(c) == IF c.column_name = "HPO_category" THEN prereq_df(df) ELSE df

PartitionOf(c) ==
    {i \in FrameOf(c) :
        /\ Rows[i].disorder = disorder
        /\ IF c.column_name = "HPO_category"
           THEN Rows[i].HPO_category = c.column_value
           ELSE Rows[i].discovery_group = c.column_value}

PartitionNames(c) == {Rows[i].patient_name : i \in PartitionOf(c)}

GroupNames(g) ==
    {Rows[i].patient_name :
        i \in {j \in df : Rows[j].disorder = disorder /\ Rows[j].discovery_group = g}}

Occurrences(s, x) == Cardinality({i \in 1..Len(s) : s[i] = x})

Returned(c) == c.err = "none"

\* C1: whenever generate_single_patient returns, the phenotype portion is the
\* developmental names drawn, then the symptom names (drawn, then injected),
\* then the finding names drawn: every developmental position comes before
\* every symptom position and every symptom position before every finding one.
C1_ThreeSegments ==
    pc = "done" =>
        LET nd == Len(calls[3].out)
            ns == Len(calls[2].out) + Len(sampled_prereq_list)
            nf == Len(calls[1].out)
        IN  /\ Len(Portion) = nd + ns + nf
            /\ \A i \in 1..Len(Portion) :
                 /\ i <= nd => Portion[i] = calls[3].out[i]
                                /\ Portion[i] \in GroupNames("D")
                 /\ (nd < i /\ i <= nd + Len(calls[2].out)) =>
                        Portion[i] = calls[2].out[i - nd]
                        /\ Portion[i] \in GroupNames("S")
                 /\ (nd + Len(calls[2].out) < i /\ i <= nd + ns) =>
                        Portion[i] = sampled_prereq_list[i - nd - Len(calls[2].out)]
                 /\ nd + ns < i => Portion[i] = calls[1].out[i - nd - ns]
                                    /\ Portion[i] \in GroupNames("F")

C1_Witness ==
    /\ pc = "done"
    /\ Len(calls[1].out) > 0 /\ Len(calls[2].out) > 0 /\ Len(calls[3].out) > 0
    /\ Len(calls) > 3

\* C2 (as claimed): when a sampled finding needs a prerequisite and the pool of
\* its prerequisite category (rows of the disorder not needing a prerequisite,
\* with that category tag) is not empty, the returned symptom segment holds,
\* beyond the symptoms first sampled, a name of that pool.
C2_PrerequisiteInjected ==
    pc = "done" =>
        \A i \in df :
            LET pool == {j \in prereq_df(df) :
                            /\ Rows[j].disorder = disorder
                            /\ Rows[j].HPO_category = Rows[i].prerequisite_type}
            IN  (/\ Rows[i].disorder = disorder
                 /\ Rows[i].discovery_group = "F"
                 /\ Rows[i].prerequisite_needed = "Y"
                 /\ Rows[i].patient_name \in Range(fin)
                 /\ pool # {})
                => \E k \in (Len(calls[2].out) + 1)..Len(sym) :
                       sym[k] \in {Rows[j].patient_name : j \in pool}

\* C3 (as claimed): a call on a non-empty partition that returns gives at most
\* as many items as the partition has rows, each the name of a row of the
\* partition, and no name twice.
C3_NoNameTwice ==
    \A k \in 1..Len(calls) :
        (calls[k].n > 0 /\ Returned(calls[k])) =>
            /\ Len(calls[k].out) <= calls[k].n
            /\ Range(calls[k].out) \subseteq PartitionNames(calls[k])
            /\ NoRepeat(calls[k].out)

\* C3 (amended): a call on a non-empty partition that returns gives at most as
\* many items as the partition has rows, each the name of a row of the
\* partition, and no name more often than rows of the partition carry it; so
\* no name twice when the names of the partition are distinct.
C3_NoRowTwice ==
    \A k \in 1..Len(calls) :
        (calls[k].n > 0 /\ Returned(calls[k])) =>
            /\ calls[k].n = Cardinality(PartitionOf(calls[k]))
            /\ Len(calls[k].out) <= calls[k].n
            /\ Range(calls[k].out) \subseteq PartitionNames(calls[k])
            /\ \A x \in Range(calls[k].out) :
                 Occurrences(calls[k].out, x) <=
                    Cardinality({i \in PartitionOf(calls[k]) : Rows[i].patient_name = x})
            /\ (Cardinality(PartitionNames(calls[k])) = calls[k].n
                    => NoRepeat(calls[k].out))

C3_Witness ==
    \E k \in 1..Len(calls) :
        /\ Returned(calls[k])
        /\ calls[k].n >= 2
        /\ Len(calls[k].out) = calls[k].n
        /\ Cardinality(PartitionNames(calls[k])) = calls[k].n

\* C4 (as claimed): on a non-empty partition, a noised and rounded size that
\* is negative or zero makes the call return the empty sequence, with no error.
C4_NonPositiveSizeIsEmpty ==
    \A k \in 1..Len(calls) :
        (calls[k].n > 0 /\ calls[k].den # 0 /\ calls[k].size <= 0) =>
            Returned(calls[k]) /\ calls[k].out = << >>

UniqueWithinCategory ==
    \A i, j \in df :
        (/\ Rows[i].disorder = Rows[j].disorder
         /\ Rows[i].discovery_group = Rows[j].discovery_group
         /\ Rows[i].patient_name = Rows[j].patient_name) => i = j

\* names are unique within a disorder, whatever the category
UniqueWithinDisorder ==
    \A i, j \in df :
        (/\ Rows[i].disorder = Rows[j].disorder
         /\ Rows[i].patient_name = Rows[j].patient_name) => i = j

\* the positions of the portion that hold an injected prerequisite symptom
InjectedPositions ==
    {i \in 1..Len(Portion) :
        /\ Len(calls[3].out) + Len(calls[2].out) < i
        /\ i <= Len(calls[3].out) + Len(sym)}

\* the positions of the portion that hold a sampled developmental trait or symptom
SampledSymDevPositions == 1..(Len(calls[3].out) + Len(calls[2].out))

\* C6 (as claimed): on a frame whose names are unique within disorder and
\* category, no name appears twice in the returned portion, unless one of the
\* two is an injected prerequisite symptom repeating a sampled symptom or
\* developmental trait.
C6_NoDuplicateNames ==
    (pc = "done" /\ UniqueWithinCategory) =>
        \A i, j \in 1..Len(Portion) :
            (i < j /\ Portion[i] = Portion[j]) =>
                (j \in InjectedPositions /\ i \in SampledSymDevPositions)

\* C6 (amended): on a frame whose names are unique within the disorder, across
\* the categories, no name appears twice in the returned portion.
C6_NoDuplicateNamesUniqueFrame ==
    (pc = "done" /\ UniqueWithinDisorder) => NoRepeat(Portion)

C6_Witness ==
    /\ pc = "done"
    /\ UniqueWithinDisorder
    /\ Len(calls) > 3
    /\ \E x \in Range(calls[4].out) : x \in Range(calls[2].out)
    /\ Len(Portion) >= 2

\* C7: the returned profile begins with the identity fields, in their order and
\* with their values, the phenotype names follow, and its length is the
\* number of identity fields plus the lengths of the three segments.
C7_IdentityPrefix ==
    pc = "done" =>
        /\ Len(result) = Len(patient_info) + Len(dev) + Len(sym) + Len(fin)
        /\ \A i \in 1..Len(patient_info) : result[i] = patient_info[i]
        /\ \A i \in 1..Len(dev) : result[Len(patient_info) + i] = dev[i]
        /\ \A i \in 1..Len(sym) : result[Len(patient_info) + Len(dev) + i] = sym[i]
        /\ \A i \in 1..Len(fin) :
               result[Len(patient_info) + Len(dev) + Len(sym) + i] = fin[i]

C7_Witness ==
    /\ pc = "done"
    /\ Len(patient_info) >= 2
    /\ Len(result) > Len(patient_info) + 1

\* C8: a call for a disorder with no row in the frame raises and returns
\* nothing; a call that returns has made its three category draws and every
\* prerequisite draw without error and returns the whole sequence; a call
\* that raises returns nothing.
C8_CompleteOrFailed ==
    /\ ((\A i \in df : Rows[i].disorder # disorder) /\ pc # "fin") =>
           /\ pc = "failed"
           /\ Len(calls) = 1
           /\ calls[1].err = "ZeroDivisionError"
    /\ pc # "done" => result = << >>
    /\ pc = "done" =>
           /\ Len(calls) >= 3
           /\ \A k \in 1..Len(calls) : Returned(calls[k])
           /\ specific_fin = << >>
           /\ result = patient_info \o calls[3].out \o sym \o calls[1].out
           /\ \E i \in df : Rows[i].disorder = disorder

C8_Witness ==
    /\ pc = "failed"
    /\ \A i \in df : Rows[i].disorder # disorder
    /\ df # {}
    /\ total_phenotypes > 0

\* C9: on a partition of n > 0 rows with noised, rounded size s, the call
\* returns round(0.8 n) items when s > n (fewer than n when n >= 3) and s
\* items when 0 <= s <= n.
C9_ReturnedSize ==
    \A k \in 1..Len(calls) :
        LET n == calls[k].n
            s == calls[k].size
            got == Len(calls[k].out)
        IN  (n > 0 /\ calls[k].den # 0 /\ s >= 0) =>
              /\ Returned(calls[k])
              /\ s > n => /\ 10 * got - 5 < 8 * n
                          /\ 8 * n < 10 * got + 5
                          /\ (n >= 3 => got < n)
              /\ s <= n => got = s

C9_Witness ==
    \E k \in 1..Len(calls) :
        /\ calls[k].n >= 3
        /\ calls[k].size > calls[k].n
        /\ Returned(calls[k])

\* C10 (as claimed): in every sampler call of one generate_single_patient
\* call, the prerequisite draws included, the size before the noise is
\* targetCount * subsetWeight / totalWeight with totalWeight the weight of all
\* rows of the disorder in the catalog.
C10_TotalWeightOfDisorder ==
    \A k \in 1..Len(calls) :
        /\ calls[k].num = total_phenotypes * fsum(PartitionOf(calls[k]))
        /\ calls[k].den = fsum({i \in df : Rows[i].disorder = disorder})

\* C10 (amended): the size before the noise is targetCount * subsetWeight /
\* totalWeight, where totalWeight is the weight of all rows of the disorder in
\* the frame the call is given: the whole catalog in the three category
\* draws, the rows not needing a prerequisite in the prerequisite draws; the
\* sizes before the noise of the three category draws add up to targetCount.
C10_TotalWeightOfFrame ==
    /\ \A k \in 1..Len(calls) :
        /\ calls[k].num = total_phenotypes * fsum(PartitionOf(calls[k]))
        /\ calls[k].den = fsum({i \in FrameOf(calls[k]) : Rows[i].disorder = disorder})
    /\ Len(calls) >= 3 =>
        /\ calls[1].den = calls[2].den /\ calls[2].den = calls[3].den
        /\ calls[1].den > 0
        /\ calls[1].num + calls[2].num + calls[3].num
              = total_phenotypes * calls[1].den

C10_Witness ==
    /\ Len(calls) > 3
    /\ calls[4].num > 0
    /\ calls[4].den < calls[1].den
    /\ calls[1].num > 0 /\ calls[2].num > 0 /\ calls[3].num > 0
    /\ \E i \in df : Rows[i].disorder # disorder

====
